---- MODULE Spec2Model ----
(***************************************************************************)
(* Learning-rate schedulers of creme/optim/lr_schedule.py:                 *)
(*   ConstantLR.get(t)       = learning_rate                               *)
(*   InverseScalingLR.get(t) = learning_rate / (t + 1) ** power            *)
(*   OptimalLR.get(t)        = 1. / (alpha * (t + t0))                     *)
(* The arithmetic is Python's: int is exact and unbounded, float is IEEE   *)
(* 754 binary floating point with round-to-nearest-even, and the operators *)
(* raise ZeroDivisionError / OverflowError where CPython raises them.      *)
(***************************************************************************)
EXTENDS Integers, Sequences, FiniteSets, TLC

(***************************************************************************)
(* Natural numbers of any size: little-endian sequences of limbs, no zero  *)
(* limb at the top, zero is << >>.  They carry the significands of the     *)
(* floating-point values and the intermediate products and quotients.      *)
(***************************************************************************)
Max2(a, b) == IF a >= b THEN a ELSE b
Min2(a, b) == IF a <= b THEN a ELSE b
MaxOf(S) == CHOOSE i \in S : \A j \in S : j <= i

LimbBase == 2 ^ 15

LimbBits == CHOOSE k \in 1..30 : 2 ^ k = LimbBase

\* limb i of a, zero beyond its length
Limb(a, i) == IF i >= 1 /\ i <= Len(a) THEN a[i] ELSE 0

BNorm(a) ==
    LET nz == {i \in 1..Len(a) : a[i] /= 0}
    IN  IF nz = {} THEN << >> ELSE SubSeq(a, 1, MaxOf(nz))

RECURSIVE BFromNat(_)
BFromNat(n) ==
    IF n = 0 THEN << >>
    ELSE << n % LimbBase >> \o BFromNat(n \div LimbBase)

RECURSIVE BToNat(_)
BToNat(a) ==
    IF a = << >> THEN 0 ELSE a[1] + LimbBase * BToNat(Tail(a))

\* -1, 0, 1 as a < b, a = b, a > b
BCmp(a, b) ==
    IF Len(a) < Len(b) THEN -1
    ELSE IF Len(a) > Len(b) THEN 1
    ELSE LET d == {i \in 1..Len(a) : a[i] /= b[i]}
         IN  IF d = {} THEN 0
             ELSE IF a[MaxOf(d)] < b[MaxOf(d)] THEN -1 ELSE 1

\* a + b: the carry into limb i + 1 is generated at some j <= i and
\* propagated through the limbs between
BAdd(a, b) ==
    LET n     == Max2(Len(a), Len(b))
        s     == [i \in 1..n |-> Limb(a, i) + Limb(b, i)]
        cy(i) == \E j \in 1..i :
                    s[j] >= LimbBase /\ \A k \in (j + 1)..i : s[k] = LimbBase - 1
    IN  BNorm([i \in 1..(n + 1) |->
                 IF i = n + 1 THEN (IF n >= 1 /\ cy(n) THEN 1 ELSE 0)
                 ELSE (s[i] + (IF i > 1 /\ cy(i - 1) THEN 1 ELSE 0)) % LimbBase])

\* a - b for a >= b, with the borrows found like the carries
BSub(a, b) ==
    LET n     == Len(a)
        d     == [i \in 1..n |-> a[i] - Limb(b, i)]
        bw(i) == \E j \in 1..i : d[j] < 0 /\ \A k \in (j + 1)..i : d[k] = 0
    IN  BNorm([i \in 1..n |->
                 (d[i] - (IF i > 1 /\ bw(i - 1) THEN 1 ELSE 0)) % LimbBase])

\* a * m for a limb m: the low and the high halves of the limb products
BMulSmall(a, m) ==
    BAdd([i \in 1..Len(a) |-> (a[i] * m) % LimbBase],
         [i \in 1..(Len(a) + 1) |->
             IF i = 1 THEN 0 ELSE (a[i - 1] * m) \div LimbBase])

\* acc plus the sum over i.. of the low (or the high) halves of the limb
\* products a[i] * b[k + 1 - i]: one column of the product
RECURSIVE ColSum(_, _, _, _, _, _)
ColSum(a, b, k, i, hi, acc) ==
    IF i > Min2(k, Len(a)) THEN acc
    ELSE LET p  == a[i] * Limb(b, k + 1 - i)
             a2 == acc + (IF hi THEN p \div LimbBase ELSE p % LimbBase)
         IN  IF a2 >= 0 THEN ColSum(a, b, k, i + 1, hi, a2) ELSE acc

\* a * b by columns: column k holds the low halves of the products of
\* weight k and the high halves of those of weight k - 1
BMul(a, b) ==
    IF a = << >> \/ b = << >> THEN << >>
    ELSE LET n == Len(a) + Len(b)
             w == [k \in 1..n |->
                     ColSum(a, b, k, Max2(1, k + 1 - Len(b)), FALSE, 0)
                       + (IF k = 1 THEN 0
                          ELSE ColSum(a, b, k - 1, Max2(1, k - Len(b)), TRUE, 0))]
         IN  BAdd([k \in 1..n |-> w[k] % LimbBase],
                  [k \in 1..(n + 1) |->
                      IF k = 1 THEN 0 ELSE w[k - 1] \div LimbBase])

\* <<quotient limbs above i, remainder>> of a by a limb m > 0, continued
\* from limb i downwards with the running value cur (the test has limb i
\* divided before the next)
RECURSIVE BDivSmallAt(_, _, _, _, _)
BDivSmallAt(a, m, i, q, cur) ==
    IF cur \div m >= 0 /\ i > 1
    THEN BDivSmallAt(a, m, i - 1, << cur \div m >> \o q,
                     (cur % m) * LimbBase + a[i - 1])
    ELSE << << cur \div m >> \o q, cur % m >>

BDivSmallFix(qr) == << BNorm(qr[1]), BFromNat(qr[2]) >>

\* <<a \div m, a % m>> for a limb m > 0
BDivSmall(a, m) ==
    IF a = << >> THEN << << >>, << >> >>
    ELSE BDivSmallFix(BDivSmallAt(a, m, Len(a), << >>, a[Len(a)]))

\* number of bits of a native natural
NatBitLen(n) == CHOOSE k \in 0..30 : 2 ^ k > n /\ (k = 0 \/ 2 ^ (k - 1) <= n)

BBitLen(a) ==
    IF a = << >> THEN 0
    ELSE LimbBits * (Len(a) - 1) + NatBitLen(a[Len(a)])

BIsOdd(a) == a /= << >> /\ a[1] % 2 = 1

\* a * 2^k
BShl(a, k) ==
    IF a = << >> THEN << >>
    ELSE [i \in 1..(k \div LimbBits) |-> 0] \o BMulSmall(a, 2 ^ (k % LimbBits))

\* a \div 2^k: limb i takes the high bits of limb i + d and the low bits of
\* limb i + d + 1, d the whole limbs shifted out
BShr(a, k) ==
    BNorm([i \in 1..(Len(a) - (k \div LimbBits)) |->
             (a[i + (k \div LimbBits)] \div (2 ^ (k % LimbBits)))
               + (Limb(a, i + (k \div LimbBits) + 1) % (2 ^ (k % LimbBits)))
                   * (2 ^ (LimbBits - (k % LimbBits)))])

BPow2(k) == [i \in 1..((k \div LimbBits) + 1) |->
               IF i = (k \div LimbBits) + 1 THEN 2 ^ (k % LimbBits) ELSE 0]

\* the largest limb d with d * b <= cur, given an estimate qh that is at
\* most 2 too large
BQuotFix(cur, b, qh) ==
    IF BCmp(BMulSmall(b, qh), cur) <= 0 THEN qh
    ELSE IF BCmp(BMulSmall(b, qh - 1), cur) <= 0 THEN qh - 1
    ELSE qh - 2

\* the largest limb d with d * b <= cur, for cur < b * LimbBase and the top
\* limb of b at least LimbBase / 2: estimated from the top limbs
BQuotDigit(cur, b) ==
    BQuotFix(cur, b,
             Min2((Limb(cur, Len(b) + 1) * LimbBase + Limb(cur, Len(b)))
                     \div b[Len(b)],
                  LimbBase - 1))

\* long division, limb by limb from limb i downwards, q the quotient limbs
\* above i and r the remainder so far (the test has digit i computed before
\* the next)
RECURSIVE BDivFrom(_, _, _, _, _)
BDivNext(a, b, i, q, cur, d) ==
    IF d >= 0 THEN BDivFrom(a, b, i - 1, << d >> \o q, BSub(cur, BMulSmall(b, d)))
    ELSE << q, cur >>

BDivDigit(a, b, i, q, cur) == BDivNext(a, b, i, q, cur, BQuotDigit(cur, b))

BDivFrom(a, b, i, q, r) ==
    IF i = 0 THEN << q, r >>
    ELSE BDivDigit(a, b, i, q, BNorm(<< a[i] >> \o r))

BDivStart(a, b) == BDivFrom(a, b, Len(a), << >>, << >>)

BDivUnshift(qr, sh) == << BNorm(qr[1]), BShr(qr[2], sh) >>

\* long division after scaling both by 2^sh, which makes the top limb of b
\* at least LimbBase / 2
BDivScaled(a, b, sh) == BDivUnshift(BDivStart(BShl(a, sh), BShl(b, sh)), sh)

\* <<a \div b, a % b>> for b > 0, both as limb sequences
BDivMod(a, b) ==
    IF Len(b) = 1 THEN BDivSmall(a, b[1])
    ELSE BDivScaled(a, b, LimbBits - NatBitLen(b[Len(b)]))

\* floor of the square root: Newton's iteration downwards from x >= sqrt(a)
RECURSIVE BSqrtFrom(_, _)
BSqrtStep(a, x, y) == IF BCmp(y, x) >= 0 THEN x ELSE BSqrtFrom(a, y)

BSqrtFrom(a, x) == BSqrtStep(a, x, BShr(BAdd(x, BDivMod(a, x)[1]), 1))

BSqrt(a) ==
    IF a = << >> THEN << >> ELSE BSqrtFrom(a, BPow2((BBitLen(a) + 1) \div 2))

RECURSIVE BPowNat(_, _)
BPowNat(a, n) == IF n = 0 THEN << 1 >> ELSE BMul(a, BPowNat(a, n - 1))

(***************************************************************************)
(* Floating point.  A format f = [p, emin, emax] holds the values          *)
(* (-1)^s * m * 2^e with 0 <= m < 2^p and emin <= e <= emax, m >= 2^(p-1)  *)
(* unless e = emin (subnormal), plus the infinities and NaN.  CPython's    *)
(* float is Binary64; Reduced is the same structure with few bits, small   *)
(* enough to enumerate.                                                    *)
(***************************************************************************)
Binary64 == [p |-> 53, emin |-> -1074, emax |-> 971]

Prec == 3
ExpMinDepth == 5
ExpMax == 1

Reduced == [p |-> Prec, emin |-> -ExpMinDepth, emax |-> ExpMax]

Flt(s, m, e) == [k |-> "float", s |-> s, m |-> m, e |-> e]
Inf(s)       == [k |-> "inf", s |-> s]
NaN          == [k |-> "nan"]
Complex      == [k |-> "complex"]
PyInt(v)     == [k |-> "int", v |-> v]
Raise(exc)   == [k |-> "raise", exc |-> exc]

IsRaise(x) == x.k = "raise"
FZero(f, s) == Flt(s, << >>, f.emin)
IsZeroF(x) == x.k = "float" /\ x.m = << >>

\* the float of significand m and exponent e, the infinity beyond emax
Pack(f, s, m, e) == IF e > f.emax THEN Inf(s) ELSE Flt(s, m, e)

\* a rounded significand m1 that reached 2^p moves to the next exponent
Renorm(f, s, m1, e) ==
    IF BBitLen(m1) > f.p THEN Pack(f, s, BShr(m1, 1), e + 1)
    ELSE Pack(f, s, m1, e)

\* round to nearest, ties to even: c compares the bits cut off with one half
RoundsUp(c, sticky, m0) == c > 0 \/ (c = 0 /\ (sticky \/ BIsOdd(m0)))

\* q with its low drop > 0 bits cut off, m0 the bits kept
RoundCut(f, s, q, e, sticky, drop, m0) ==
    Renorm(f, s,
           IF RoundsUp(BCmp(BSub(q, BShl(m0, drop)), BPow2(drop - 1)), sticky, m0)
           THEN BAdd(m0, << 1 >>) ELSE m0,
           e + drop)

RoundAt(f, s, q, e, sticky, drop) ==
    IF drop <= 0 THEN Pack(f, s, BShl(q, -drop), e + drop)
    ELSE RoundCut(f, s, q, e, sticky, drop, BShr(q, drop))

\* (-1)^s * (q + sticky) * 2^e rounded to nearest, ties to even; sticky says
\* that the exact value lies strictly between q and q + 1.  The bits cut off
\* leave p bits, or fewer where the exponent would fall below emin
RoundBits(f, s, q, e, sticky) ==
    IF q = << >> THEN FZero(f, s)
    ELSE RoundAt(f, s, q, e, sticky,
                 IF e + BBitLen(q) - f.p < f.emin THEN f.emin - e
                 ELSE BBitLen(q) - f.p)

RoundQuot(f, s, qr, e) == RoundBits(f, s, qr[1], e, qr[2] /= << >>)

RoundRatioAt(f, s, n, d, e, sh) == RoundQuot(f, s, BDivMod(BShl(n, sh), d), e - sh)

\* (-1)^s * (n / d) * 2^e correctly rounded, d > 0: the quotient is taken
\* with at least p + 2 bits
RoundRatio(f, s, n, d, e) ==
    IF n = << >> THEN FZero(f, s)
    ELSE RoundRatioAt(f, s, n, d, e, Max2(0, f.p + 2 + BBitLen(d) - BBitLen(n)))

RoundRootOf(f, qr, q, e) ==
    RoundBits(f, 0, q, e, qr[2] /= << >> \/ BMul(q, q) /= qr[1])

RoundRoot(f, qr, e) == RoundRootOf(f, qr, BSqrt(qr[1]), e)

RoundSqrtAt(f, n, d, e, k) == RoundRoot(f, BDivMod(BShl(n, 2 * k), d), e - k)

\* sqrt(n / d) * 2^e correctly rounded, n > 0, d > 0
RoundSqrt(f, n, d, e) ==
    RoundSqrtAt(f, n, d, e,
                Max2(0, (2 * f.p + 6 + BBitLen(d) - BBitLen(n)) \div 2))

\* a float literal of the source text: the decimal n / d
Lit(f, n, d) == RoundRatio(f, 0, BFromNat(n), BFromNat(d), 0)

Xor(s1, s2) == (s1 + s2) % 2
Abs(v) == IF v < 0 THEN -v ELSE v

OverflowIfInf(r) == IF r.k = "inf" THEN Raise("OverflowError") ELSE r

\* float(v) for a Python int v (PyLong_AsDouble)
FloatFromInt(f, v) ==
    OverflowIfInf(RoundBits(f, IF v < 0 THEN 1 ELSE 0, BFromNat(Abs(v)), 0, FALSE))

ToFloat(f, x) == IF x.k = "int" THEN FloatFromInt(f, x.v) ELSE x

\* the sum of (-1)^sa * x and (-1)^sb * y, all at exponent el
FAddMag(f, sa, sb, x, y, el) ==
    RoundBits(f,
              IF sa = sb \/ BCmp(x, y) > 0 THEN sa
              ELSE IF BCmp(x, y) < 0 THEN sb ELSE 0,
              IF sa = sb THEN BAdd(x, y)
              ELSE IF BCmp(x, y) >= 0 THEN BSub(x, y) ELSE BSub(y, x),
              el, FALSE)

\* IEEE addition of two floats
FAdd(f, a, b) ==
    IF a.k = "nan" \/ b.k = "nan" THEN NaN
    ELSE IF a.k = "inf" THEN (IF b.k = "inf" /\ b.s /= a.s THEN NaN ELSE a)
    ELSE IF b.k = "inf" THEN b
    ELSE FAddMag(f, a.s, b.s, BShl(a.m, a.e - Min2(a.e, b.e)),
                 BShl(b.m, b.e - Min2(a.e, b.e)), Min2(a.e, b.e))

\* IEEE multiplication of two floats
FMul(f, a, b) ==
    IF a.k = "nan" \/ b.k = "nan" THEN NaN
    ELSE IF a.k = "inf" \/ b.k = "inf"
         THEN (IF IsZeroF(a) \/ IsZeroF(b) THEN NaN ELSE Inf(Xor(a.s, b.s)))
    ELSE RoundBits(f, Xor(a.s, b.s), BMul(a.m, b.m), a.e + b.e, FALSE)

\* a / b as IEEE 754 defines it: a zero divisor gives an infinity or NaN
FDivIEEE(f, a, b) ==
    IF a.k = "nan" \/ b.k = "nan" THEN NaN
    ELSE IF IsZeroF(b) THEN (IF IsZeroF(a) THEN NaN ELSE Inf(Xor(a.s, b.s)))
    ELSE IF a.k = "inf" THEN (IF b.k = "inf" THEN NaN ELSE Inf(Xor(a.s, b.s)))
    ELSE IF b.k = "inf" THEN FZero(f, Xor(a.s, b.s))
    ELSE RoundRatio(f, Xor(a.s, b.s), a.m, b.m, a.e - b.e)

\* float_div: a / b for two floats
FDiv(f, a, b) ==
    IF IsZeroF(b) THEN Raise("ZeroDivisionError")
    ELSE IF a.k = "nan" \/ b.k = "nan" THEN NaN
    ELSE IF a.k = "inf" THEN (IF b.k = "inf" THEN NaN ELSE Inf(Xor(a.s, b.s)))
    ELSE IF b.k = "inf" THEN FZero(f, Xor(a.s, b.s))
    ELSE RoundRatio(f, Xor(a.s, b.s), a.m, b.m, a.e - b.e)

\* the exponents whose powers are computed: 2|y| a natural up to MaxTwicePower
MaxTwicePower == 4

SmallNat(a) ==
    IF BBitLen(a) <= NatBitLen(MaxTwicePower) /\ BToNat(a) <= MaxTwicePower
    THEN BToNat(a) ELSE -1

\* twice |y| as a natural when y is a finite float with 2y an integer of at
\* most MaxTwicePower, else -1
TwiceAbs(y) ==
    IF y.k /= "float" THEN -1
    ELSE IF y.e + 1 >= 0 THEN SmallNat(BShl(y.m, y.e + 1))
    ELSE IF BShl(BShr(y.m, -(y.e + 1)), -(y.e + 1)) = y.m
         THEN SmallNat(BShr(y.m, -(y.e + 1)))
    ELSE -1

\* (m * 2^e) ^ (+1 or -1) rounded
PowWhole(f, m, e, ys) ==
    RoundRatio(f, 0, IF ys = 0 THEN m ELSE << 1 >>, IF ys = 0 THEN << 1 >> ELSE m,
               IF ys = 0 THEN e ELSE -e)

\* sqrt(m * 2^(2e)) ^ (+1 or -1) rounded
PowRoot(f, m, e, ys) ==
    RoundSqrt(f, IF ys = 0 THEN m ELSE << 1 >>, IF ys = 0 THEN << 1 >> ELSE m,
              IF ys = 0 THEN e ELSE -e)

\* pow(x, y) of the C library for finite x > 0 and 2y = (-1)^ys * j, correctly
\* rounded; an overflow is the infinity, an underflow is zero
LibmPow(f, x, ys, j) ==
    IF j % 2 = 0
    THEN PowWhole(f, BPowNat(x.m, j \div 2), x.e * (j \div 2), ys)
    ELSE PowRoot(f,
                 IF (x.e * j) % 2 = 1 THEN BMulSmall(BPowNat(x.m, j), 2)
                 ELSE BPowNat(x.m, j),
                 ((x.e * j) - ((x.e * j) % 2)) \div 2, ys)

\* the result of pow checked as float_pow checks it
PowResult(r, negate) ==
    IF r.k = "inf" THEN Raise("OverflowError")
    ELSE IF negate /\ r.k = "float" THEN [r EXCEPT !.s = 1]
    ELSE r

\* float_pow for y /= 0, j = TwiceAbs(y)
FPowBy(f, x, y, j) ==
    IF j < 0 \/ x.k /= "float" THEN Raise("NotModelled")
    ELSE IF IsZeroF(x)
         THEN (IF y.s = 1 THEN Raise("ZeroDivisionError")
               ELSE FZero(f, IF j % 4 = 2 THEN x.s ELSE 0))
    ELSE IF x.s = 1 /\ j % 2 = 1 THEN Complex
    ELSE PowResult(LibmPow(f, Flt(0, x.m, x.e), y.s, j), x.s = 1 /\ j % 4 = 2)

\* float_pow: x ** y for finite floats x and y
FPow(f, x, y) ==
    IF IsZeroF(y) THEN Lit(f, 1, 1) ELSE FPowBy(f, x, y, TwiceAbs(y))

(***************************************************************************)
(* Python's binary operators on int and float operands.  An operand that   *)
(* is an exception already raised propagates: the operator is not reached. *)
(***************************************************************************)
FAddOrRaise(f, x, y) ==
    IF IsRaise(x) THEN x ELSE IF IsRaise(y) THEN y ELSE FAdd(f, x, y)

\* a + b; a complex operand gives a complex sum
PyAdd(f, a, b) ==
    IF IsRaise(a) THEN a ELSE IF IsRaise(b) THEN b
    ELSE IF a.k = "complex" \/ b.k = "complex" THEN Complex
    ELSE IF a.k = "int" /\ b.k = "int" THEN PyInt(a.v + b.v)
    ELSE FAddOrRaise(f, ToFloat(f, a), ToFloat(f, b))

FMulOrRaise(f, x, y) ==
    IF IsRaise(x) THEN x ELSE IF IsRaise(y) THEN y ELSE FMul(f, x, y)

\* a * b; a complex operand gives a complex product
PyMul(f, a, b) ==
    IF IsRaise(a) THEN a ELSE IF IsRaise(b) THEN b
    ELSE IF a.k = "complex" \/ b.k = "complex" THEN Complex
    ELSE IF a.k = "int" /\ b.k = "int" THEN PyInt(a.v * b.v)
    ELSE FMulOrRaise(f, ToFloat(f, a), ToFloat(f, b))

FDivOrRaise(f, x, y) ==
    IF IsRaise(x) THEN x ELSE IF IsRaise(y) THEN y ELSE FDiv(f, x, y)

\* a / b (true division); a complex operand gives a complex quotient
PyTrueDiv(f, a, b) ==
    IF IsRaise(a) THEN a ELSE IF IsRaise(b) THEN b
    ELSE IF b.k = "complex" \/ a.k = "complex" THEN Complex
    ELSE IF a.k = "int" /\ b.k = "int"
         THEN (IF b.v = 0 THEN Raise("ZeroDivisionError")
               ELSE OverflowIfInf(
                      RoundRatio(f, IF (a.v < 0) /= (b.v < 0) THEN 1 ELSE 0,
                                 BFromNat(Abs(a.v)), BFromNat(Abs(b.v)), 0)))
    ELSE FDivOrRaise(f, ToFloat(f, a), ToFloat(f, b))

\* a ** b for ints, b >= 0 (long_pow): exact, and 0 ** 0 is 1
RECURSIVE IntPow(_, _)
IntPow(a, n) == IF n = 0 THEN 1 ELSE a * IntPow(a, n - 1)

FPowOrRaise(f, x, y) ==
    IF IsRaise(x) THEN x ELSE IF IsRaise(y) THEN y ELSE FPow(f, x, y)

\* a ** b; a complex operand gives a complex power
PyPow(f, a, b) ==
    IF IsRaise(a) THEN a ELSE IF IsRaise(b) THEN b
    ELSE IF a.k = "complex" \/ b.k = "complex" THEN Complex
    ELSE IF a.k = "int" /\ b.k = "int" /\ b.v >= 0 THEN PyInt(IntPow(a.v, b.v))
    ELSE FPowOrRaise(f, ToFloat(f, a), ToFloat(f, b))

(***************************************************************************)
(* Python's comparisons of numbers (int, float), by exact value.           *)
(***************************************************************************)
IsNum(x) == x.k \in {"int", "float", "inf", "nan"}

\* an int as an unrounded significand at exponent 0
Exact(x) ==
    IF x.k = "int" THEN Flt(IF x.v < 0 THEN 1 ELSE 0, BFromNat(Abs(x.v)), 0) ELSE x

SignOf(a) == IF a.m = << >> THEN 0 ELSE IF a.s = 1 THEN -1 ELSE 1

MagCmp(a, b) ==
    BCmp(BShl(a.m, a.e - Min2(a.e, b.e)), BShl(b.m, b.e - Min2(a.e, b.e)))

\* -1, 0 or 1 as a < b, a = b or a > b, for finite a and b
NumCmp(a, b) ==
    IF SignOf(a) /= SignOf(b) THEN (IF SignOf(a) < SignOf(b) THEN -1 ELSE 1)
    ELSE SignOf(a) * MagCmp(a, b)

Level(x) == IF x.k = "inf" THEN (IF x.s = 1 THEN -1 ELSE 1) ELSE 0

\* -1, 0 or 1 for numbers a and b, 2 when one is NaN (unordered)
PyCmp(a, b) ==
    IF a.k = "nan" \/ b.k = "nan" THEN 2
    ELSE IF Level(a) /= Level(b) THEN (IF Level(a) < Level(b) THEN -1 ELSE 1)
    ELSE IF Level(a) /= 0 THEN 0
    ELSE NumCmp(Exact(a), Exact(b))

PyEq(a, b) == IsNum(a) /\ IsNum(b) /\ PyCmp(a, b) = 0
PyLt(a, b) == IsNum(a) /\ IsNum(b) /\ PyCmp(a, b) = -1
PyLe(a, b) == IsNum(a) /\ IsNum(b) /\ PyCmp(a, b) \in {-1, 0}
IsPositive(x) == PyLt(PyInt(0), x)
IsNegative(x) == PyLt(x, PyInt(0))
IsZero(x) == PyEq(x, PyInt(0))

(***************************************************************************)
(* The schedulers.  An object is its class and its attribute dictionary.   *)
(***************************************************************************)
Omitted == [k |-> "omitted"]

\* t0=1000
DefaultT0 == 1000

\* power=0.5
DefaultPower(f) == Lit(f, 5, 10)

\* the default of alpha with a digit dropped
DefaultAlphaCoarse(f) == Lit(f, 1, 1000)

\* alpha=1e-4
DefaultAlpha(f) == Lit(f, 1, 10000)

\* ConstantLR.__init__ rejecting a negative rate
ConstantLRValidated(learning_rate) ==
    IF IsNegative(learning_rate) THEN Raise("ValueError")
    ELSE [k |-> "object", cls |-> "ConstantLR",
          dict |-> [learning_rate |-> learning_rate]]

\* ConstantLR.__init__
ConstantLR(learning_rate) ==
    [k |-> "object", cls |-> "ConstantLR",
     dict |-> [learning_rate |-> learning_rate]]

\* InverseScalingLR.__init__
InverseScalingLR(f, learning_rate, power) ==
    [k |-> "object", cls |-> "InverseScalingLR",
     dict |-> [learning_rate |-> learning_rate,
               power |-> IF power = Omitted THEN DefaultPower(f) ELSE power]]

\* OptimalLR.__init__
OptimalLR(f, t0, alpha) ==
    [k |-> "object", cls |-> "OptimalLR",
     dict |-> [t0 |-> IF t0 = Omitted THEN PyInt(DefaultT0) ELSE t0,
               alpha |-> IF alpha = Omitted THEN DefaultAlpha(f) ELSE alpha]]

\* ConstantLR.get decaying its rate with the step
ConstantLRGetDecayed(f, self, t) ==
    PyTrueDiv(f, self.dict.learning_rate, PyAdd(f, PyInt(t), PyInt(1)))

\* the value ConstantLR.get returns
ConstantLRGet(f, self, t) == self.dict.learning_rate

\* the denominator without the shift of the step by one
InverseScalingLRDenominatorNoShift(f, self, t) ==
    PyPow(f, PyInt(t), self.dict.power)

\* the denominator with * written for **
InverseScalingLRDenominatorTimes(f, self, t) ==
    PyMul(f, PyAdd(f, PyInt(t), PyInt(1)), self.dict.power)

\* the denominator (t + 1) ** self.power of InverseScalingLR.get
InverseScalingLRDenominator(f, self, t) ==
    PyPow(f, PyAdd(f, PyInt(t), PyInt(1)), self.dict.power)

\* InverseScalingLR.get multiplying by the denominator
InverseScalingLRGetGrowing(f, self, t) ==
    PyMul(f, self.dict.learning_rate, InverseScalingLRDenominator(f, self, t))

\* the value InverseScalingLR.get returns, or the exception it raises
InverseScalingLRGet(f, self, t) ==
    PyTrueDiv(f, self.dict.learning_rate, InverseScalingLRDenominator(f, self, t))

\* the denominator self.alpha * (t + self.t0) of OptimalLR.get
OptimalLRDenominator(f, self, t) ==
    PyMul(f, self.dict.alpha, PyAdd(f, PyInt(t), self.dict.t0))

\* OptimalLR.get subtracting t0 from the step
OptimalLRGetMinus(f, self, t) ==
    PyTrueDiv(f, Lit(f, 1, 1),
              PyMul(f, self.dict.alpha,
                    PyAdd(f, PyInt(t), PyMul(f, PyInt(-1), self.dict.t0))))

\* the value OptimalLR.get returns, or the exception it raises
OptimalLRGet(f, self, t) ==
    PyTrueDiv(f, Lit(f, 1, 1), OptimalLRDenominator(f, self, t))

\* self.get(t), dispatched on the class of self
Get(f, self, t) ==
    CASE self.cls = "ConstantLR" -> ConstantLRGet(f, self, t)
      [] self.cls = "InverseScalingLR" -> InverseScalingLRGet(f, self, t)
      [] self.cls = "OptimalLR" -> OptimalLRGet(f, self, t)

\* self after a get that stores its step in an attribute
AfterGetStoring(f, self, t) ==
    [self EXCEPT !.dict = [n \in DOMAIN self.dict \cup {"t"} |->
                             IF n = "t" THEN PyInt(t) ELSE self.dict[n]]]

\* self after a get that advances the schedule in place
AfterGetAdvancing(f, self, t) ==
    [self EXCEPT !.dict = [n \in DOMAIN self.dict |->
                             IF n \in {"learning_rate", "t0"}
                             THEN PyAdd(f, self.dict[n], PyInt(1))
                             ELSE self.dict[n]]]

\* self after self.get(t): no get assigns an attribute
AfterGet(f, self, t) == self

(***************************************************************************)
(* The state: the interpreter's float format, one scheduler object, the    *)
(* constructor call that made it, the last completed call of get, an       *)
(* earlier call kept for comparison, and the callers that share the        *)
(* object, each inside its own call of get.                                *)
(***************************************************************************)
VARIABLES fmt, sched, made, last, memo, thr

vars == << fmt, sched, made, last, memo, thr >>

NoObject == [k |-> "none"]
NoValue  == [k |-> "novalue"]
NoCall   == [called |-> FALSE, t |-> 0, out |-> NoValue, age |-> 0]
CallOf(t, out) == [called |-> TRUE, t |-> t, out |-> out, age |-> 0]

\* the calls counted since the outcome in memo was kept
MaxAge == 2
Older(c) == IF c.called THEN [c EXCEPT !.age = Min2(c.age + 1, MaxAge)] ELSE c

MaxThreads == 2
Threads == 1..MaxThreads
Idle == [pc |-> "idle", t |-> 0, regs |-> << >>, out |-> NoValue]

\* input values of the reduced format (the defaults of OptimalLR are values
\* of binary64, and are constructed under SpecDouble)
MaxStep == 17
NegSteps == 3
Steps == (-NegSteps)..MaxStep

Neg(x) == [x EXCEPT !.s = 1]
MinSub(f) == Flt(0, << 1 >>, f.emin)
MaxFlt(f) == Flt(0, BFromNat(2 ^ f.p - 1), f.emax)

Rates(f) ==
    { FZero(f, 0), MinSub(f), Lit(f, 1, 2), Lit(f, 1, 1), MaxFlt(f),
      Neg(Lit(f, 1, 1)), PyInt(1), PyInt(-2), PyInt(2 ^ f.p + 1) }

Powers(f) ==
    { Omitted, FZero(f, 0), Lit(f, 1, 2), Lit(f, 1, 1), Lit(f, 2, 1),
      Neg(Lit(f, 1, 2)), Neg(Lit(f, 1, 1)),
      PyInt(0), PyInt(1), PyInt(2), PyInt(-1) }

T0s(f) ==
    { FZero(f, 0), MinSub(f), Lit(f, 1, 2), Lit(f, 1, 1), MaxFlt(f),
      Neg(Lit(f, 1, 1)), Neg(Lit(f, 2, 1)), PyInt(0), PyInt(1), PyInt(-1) }

Alphas(f) ==
    { FZero(f, 0), MinSub(f), Lit(f, 1, 2), Lit(f, 1, 1), MaxFlt(f),
      Neg(Lit(f, 1, 1)), PyInt(0), PyInt(1), PyInt(-1) }

InitWith(f) ==
    /\ fmt = f
    /\ sched = NoObject
    /\ made = NoObject
    /\ last = NoCall
    /\ memo = NoCall
    /\ thr = [th \in Threads |-> Idle]

\* sched = ConstantLR(learning_rate)
NewConstantLR(rates) ==
    /\ sched = NoObject
    /\ \E lr \in rates :
         /\ sched' = ConstantLR(lr)
         /\ made' = [cls |-> "ConstantLR", args |-> [learning_rate |-> lr]]
    /\ UNCHANGED << fmt, last, memo, thr >>

\* sched = InverseScalingLR(learning_rate) or InverseScalingLR(learning_rate, power)
NewInverseScalingLR(rates, powers) ==
    /\ sched = NoObject
    /\ \E lr \in rates, pw \in powers :
         /\ sched' = InverseScalingLR(fmt, lr, pw)
         /\ made' = [cls |-> "InverseScalingLR",
                     args |-> [learning_rate |-> lr, power |-> pw]]
    /\ UNCHANGED << fmt, last, memo, thr >>

\* sched = OptimalLR(), OptimalLR(t0), OptimalLR(alpha=alpha) or OptimalLR(t0, alpha)
NewOptimalLR(t0s, alphas) ==
    /\ sched = NoObject
    /\ \E t0 \in t0s, al \in alphas :
         /\ sched' = OptimalLR(fmt, t0, al)
         /\ made' = [cls |-> "OptimalLR", args |-> [t0 |-> t0, alpha |-> al]]
    /\ UNCHANGED << fmt, last, memo, thr >>

\* sched.get(t), from the call to its return or its exception; the caller
\* may keep the outcome in memo
Call(steps, keeps) ==
    /\ sched.k = "object"
    /\ \E t \in steps, keep \in keeps :
         /\ last' = CallOf(t, Get(fmt, sched, t))
         /\ memo' = IF keep THEN CallOf(t, Get(fmt, sched, t)) ELSE Older(memo)
         /\ sched' = AfterGet(fmt, sched, t)
    /\ UNCHANGED << fmt, made, thr >>

\* the attributes get reads, in the order its bytecode loads them
AttrOrder(cls) ==
    CASE cls = "ConstantLR" -> << "learning_rate" >>
      [] cls = "InverseScalingLR" -> << "learning_rate", "power" >>
      [] cls = "OptimalLR" -> << "alpha", "t0" >>

\* the object as the caller saw it: the attribute values it loaded
Loaded(cls, regs) ==
    [k |-> "object", cls |-> cls,
     dict |-> [n \in {AttrOrder(cls)[i] : i \in 1..Len(regs)} |->
                 regs[CHOOSE i \in 1..Len(regs) : AttrOrder(cls)[i] = n]]]

\* caller th enters sched.get(t)
Begin(th, steps) ==
    /\ sched.k = "object"
    /\ thr[th].pc \in {"idle", "done"}
    /\ \E t \in steps :
         thr' = [thr EXCEPT ![th] = [pc |-> "running", t |-> t,
                                     regs |-> << >>, out |-> NoValue]]
    /\ UNCHANGED << fmt, sched, made, last, memo >>

\* caller th loads the next attribute of self
LoadAttr(th) ==
    /\ thr[th].pc = "running"
    /\ Len(thr[th].regs) < Len(AttrOrder(sched.cls))
    /\ thr' = [thr EXCEPT ![th].regs =
                  Append(@, sched.dict[AttrOrder(sched.cls)[Len(@) + 1]])]
    /\ UNCHANGED << fmt, sched, made, last, memo >>

\* caller th computes the rate from what it loaded and returns or raises
Return(th) ==
    /\ thr[th].pc = "running"
    /\ Len(thr[th].regs) = Len(AttrOrder(sched.cls))
    /\ thr' = [thr EXCEPT ![th].pc = "done",
                          ![th].out = Get(fmt, Loaded(sched.cls, thr[th].regs),
                                          thr[th].t)]
    /\ sched' = AfterGet(fmt, sched, thr[th].t)
    /\ UNCHANGED << fmt, made, last, memo >>

Init == InitWith(Reduced)

Next ==
    \/ NewConstantLR(Rates(fmt))
    \/ NewInverseScalingLR(Rates(fmt), Powers(fmt))
    \/ NewOptimalLR(T0s(fmt), Alphas(fmt))
    \/ Call(Steps, {FALSE})

Spec == Init /\ [][Next]_vars

\* a few schedulers, with calls whose outcome the caller keeps
MaxSmallStep == 3
SmallSteps == (-1)..MaxSmallStep
SmallRates(f) == { Lit(f, 1, 2), PyInt(1), Neg(Lit(f, 1, 1)) }
SmallPowers(f) == { Omitted, Lit(f, 1, 1), PyInt(0) }
SmallT0s(f) == { Lit(f, 1, 2), PyInt(1), PyInt(0) }
SmallAlphas(f) == { Lit(f, 1, 1), PyInt(-1), MinSub(f) }

NextCalls ==
    \/ NewConstantLR(SmallRates(fmt))
    \/ NewInverseScalingLR(SmallRates(fmt), SmallPowers(fmt))
    \/ NewOptimalLR(SmallT0s(fmt), SmallAlphas(fmt))
    \/ Call(SmallSteps, BOOLEAN)

SpecCalls == Init /\ [][NextCalls]_vars

\* a few schedulers, each shared by the callers
ThreadSteps == { 0, 1, MaxStep }

NextThreads ==
    \/ NewConstantLR(SmallRates(fmt))
    \/ NewInverseScalingLR(SmallRates(fmt), SmallPowers(fmt))
    \/ NewOptimalLR(SmallT0s(fmt), SmallAlphas(fmt))
    \/ \E th \in Threads : Begin(th, ThreadSteps)
    \/ \E th \in Threads : LoadAttr(th)
    \/ \E th \in Threads : Return(th)

SpecThreads == Init /\ [][NextThreads]_vars

\* CPython's floats, the constructors called with and without their defaults
DoubleSteps == { 0, 1, 3, 99, 9999 }
DoubleRates(f) == { Lit(f, 1, 1), Lit(f, 1, 10), PyInt(2) }
DoublePowers(f) == { Omitted, Lit(f, 5, 10), Lit(f, 1, 1) }
DoubleT0s(f) == { Omitted, PyInt(1000), Lit(f, 1, 2) }
DoubleAlphas(f) == { Omitted, Lit(f, 1, 10000), Lit(f, 1, 100) }

InitDouble == InitWith(Binary64)

NextDouble ==
    \/ NewConstantLR(DoubleRates(fmt))
    \/ NewInverseScalingLR(DoubleRates(fmt), DoublePowers(fmt))
    \/ NewOptimalLR(DoubleT0s(fmt), DoubleAlphas(fmt))
    \/ Call(DoubleSteps, {FALSE})

SpecDouble == InitDouble /\ [][NextDouble]_vars
(***************************************************************************)
(* The attributes of the scheduler, and the outcome of its last call.      *)
(***************************************************************************)
IsA(cls) == sched.k = "object" /\ sched.cls = cls
Called(cls) == IsA(cls) /\ last.called
Returned(c) == c.called /\ ~IsRaise(c.out)

\* C1: ConstantLR(r).get(step) returns r itself at every step >= 0, so the
\* result is the same at any two steps
C1_ConstantReturnsRate ==
    Called("ConstantLR") /\ last.t >= 0 => last.out = made.args.learning_rate

C1_Witness ==
    /\ Called("ConstantLR") /\ last.t > 0
    /\ last.out = made.args.learning_rate
    /\ last.out = Lit(fmt, 1, 2)

\* an InverseScalingLR with learning_rate > 0 and power > 0
InverseScalingCase ==
    /\ IsA("InverseScalingLR")
    /\ IsPositive(sched.dict.learning_rate)
    /\ IsPositive(sched.dict.power)

NonNegative(x) == PyLe(PyInt(0), x)

ArgValue(arg, default) == IF arg = Omitted THEN default ELSE arg

\* an OptimalLR with alpha > 0 and t0 > 0
OptimalCase ==
    /\ IsA("OptimalLR")
    /\ IsPositive(sched.dict.alpha)
    /\ IsPositive(sched.dict.t0)

\* C3 as the spec states it: with alpha > 0 and t0 > 0, each call at a step
\* >= 0 returns a strictly positive rate, and a call at a later step returns a
\* strictly smaller rate than the earlier one
C3_PositiveDecreasing ==
    [][ (OptimalCase /\ last'.called /\ last'.t >= 0)
          => /\ IsPositive(last'.out)
             /\ (last.called /\ 0 <= last.t /\ last.t < last'.t)
                   => PyLt(last'.out, last.out) ]_vars

\* C3, amended: with alpha > 0 and t0 > 0, each call at a step >= 0 raises
\* ZeroDivisionError or OverflowError or returns a rate >= 0, and of two calls
\* that return, the one at the later step returns the smaller or equal rate
C3_NonNegativeNonIncreasing ==
    [][ (OptimalCase /\ last'.called /\ last'.t >= 0)
          => /\ \/ last'.out \in {Raise("ZeroDivisionError"), Raise("OverflowError")}
                \/ NonNegative(last'.out)
             /\ (Returned(last) /\ Returned(last')
                   /\ 0 <= last.t /\ last.t < last'.t)
                   => PyLe(last'.out, last.out) ]_vars

C3_Witness ==
    /\ OptimalCase /\ last.called /\ last.t >= 1
    /\ IsPositive(last.out)
    /\ PyLt(last.out, Get(fmt, sched, 0))

\* t0 and alpha are what the constructor call set them to
OptimalParamsKept ==
    /\ sched.dict.t0 = ArgValue(made.args.t0, PyInt(DefaultT0))
    /\ sched.dict.alpha = ArgValue(made.args.alpha, DefaultAlpha(fmt))

\* alpha * (t + t0) = 0 over the reals
ExactProductZero(t) ==
    IsZero(sched.dict.alpha) \/ PyEq(sched.dict.t0, PyInt(-t))

\* C4 as the spec states it: a call of OptimalLR.get raises ZeroDivisionError
\* and leaves t0 and alpha unchanged when alpha * (step + t0) is 0, and
\* returns a rate when it is not 0
C4_FailsIffProductZero ==
    Called("OptimalLR") =>
        IF ExactProductZero(last.t)
        THEN last.out = Raise("ZeroDivisionError") /\ OptimalParamsKept
        ELSE Returned(last)

\* C4, amended: a call of OptimalLR.get leaves t0 and alpha unchanged; it
\* raises ZeroDivisionError when the product alpha * (step + t0) it computed
\* is zero, raises OverflowError when step + t0 or the product does not
\* convert to float, and returns a rate in every other case
C4_FailsIffComputedZero ==
    Called("OptimalLR") =>
        /\ OptimalParamsKept
        /\ IF IsRaise(ToFloat(fmt, OptimalLRDenominator(fmt, sched, last.t)))
           THEN last.out = Raise("OverflowError")
           ELSE IF IsZero(OptimalLRDenominator(fmt, sched, last.t))
           THEN last.out = Raise("ZeroDivisionError")
           ELSE Returned(last) /\ IsNum(last.out)

C4_Witness ==
    /\ Called("OptimalLR") /\ last.t = 0
    /\ made.args.t0 = PyInt(0) /\ ~IsZero(made.args.alpha)
    /\ last.out = Raise("ZeroDivisionError")
    /\ OptimalParamsKept

\* an InverseScalingLR with power = 0 (the int 0 or the float 0.0)
ZeroPowerCase == IsA("InverseScalingLR") /\ IsZero(sched.dict.power)

\* x is a float other than NaN, or an int that converts to float unrounded
ExactlyFloat(x) ==
    IsNum(x) /\ x.k /= "nan" /\ (x.k = "int" => PyEq(FloatFromInt(fmt, x.v), x))

\* C5 as the spec states it: with power = 0 a call at any step returns a value
\* equal to learning_rate, the value ConstantLR(learning_rate).get returns
C5_ZeroPowerIsConstant ==
    (ZeroPowerCase /\ last.called) =>
        PyEq(last.out,
             ConstantLRGet(fmt, ConstantLR(sched.dict.learning_rate), last.t))

\* C5, amended: with power = 0 and a learning_rate that is a float other than
\* NaN or an int that converts to float unrounded, a call returns a value
\* equal to the one ConstantLR(learning_rate).get returns, except that with
\* the float power 0.0 it raises OverflowError at a step whose step + 1 does
\* not convert to float
C5_ZeroPowerIsConstantInRange ==
    (ZeroPowerCase /\ last.called /\ ExactlyFloat(sched.dict.learning_rate)) =>
        IF sched.dict.power.k = "float" /\ IsRaise(FloatFromInt(fmt, last.t + 1))
        THEN last.out = Raise("OverflowError")
        ELSE PyEq(last.out,
                  ConstantLRGet(fmt, ConstantLR(sched.dict.learning_rate), last.t))

C5_Witness ==
    /\ ZeroPowerCase /\ last.called /\ last.t >= 2
    /\ sched.dict.power.k = "float"
    /\ sched.dict.learning_rate = Lit(fmt, 1, 2)
    /\ last.out = Lit(fmt, 1, 2)

\* an InverseScalingLR with power >= 0
NonNegativePowerCase ==
    IsA("InverseScalingLR") /\ NonNegative(sched.dict.power)

\* C9 as the spec states it: at every integer step ConstantLR.get does not
\* fail, and InverseScalingLR.get with power >= 0 does not raise
\* ZeroDivisionError
C9_NoZeroDenominator ==
    /\ Called("ConstantLR") => Returned(last)
    /\ (NonNegativePowerCase /\ last.called)
          => last.out /= Raise("ZeroDivisionError")

\* C9, amended: at every integer step ConstantLR.get does not fail, and
\* InverseScalingLR.get with power >= 0 raises ZeroDivisionError exactly at
\* step = -1 with power > 0, where its denominator 0 ** power is zero
C9_ZeroDenominatorOnlyAtMinusOne ==
    /\ Called("ConstantLR") => Returned(last)
    /\ (NonNegativePowerCase /\ last.called)
          => (last.out = Raise("ZeroDivisionError")
                <=> (last.t = -1 /\ IsPositive(sched.dict.power)))

C9_Witness ==
    /\ NonNegativePowerCase /\ last.called
    /\ last.t = -1 /\ sched.dict.power = Lit(fmt, 1, 2)
    /\ last.out = Raise("ZeroDivisionError")

\* the denominator of the division in self.get(t)
Denominator(f, self, t) ==
    CASE self.cls = "InverseScalingLR" -> InverseScalingLRDenominator(f, self, t)
      [] self.cls = "OptimalLR" -> OptimalLRDenominator(f, self, t)

\* C10 as the spec states it: no constructor call fails, whatever the
\* parameters; ConstantLR.get does not fail, and a call of get of the other
\* two fails only with a zero denominator, so it returns a value when the
\* denominator is not zero
C10_FailsOnlyOnZeroDenominator ==
    /\ made /= NoObject => sched.k = "object"
    /\ Called("ConstantLR") => Returned(last)
    /\ (last.called /\ ~IsA("ConstantLR") /\ IsRaise(last.out))
          => /\ last.out = Raise("ZeroDivisionError")
             /\ IsZero(Denominator(fmt, sched, last.t))

\* C10, amended: no constructor call fails, whatever the parameters;
\* ConstantLR.get does not fail, and a call of get of the other two fails
\* only with ZeroDivisionError or OverflowError: it raises ZeroDivisionError
\* when its denominator is zero or, at step = -1 with a negative power, when
\* the denominator is 0 to a negative power, and otherwise returns a value
\* or raises OverflowError
C10_FailsOnlyInGet ==
    /\ made /= NoObject => sched.k = "object"
    /\ Called("ConstantLR") => Returned(last)
    /\ (last.called /\ ~IsA("ConstantLR"))
          => IF Denominator(fmt, sched, last.t) = Raise("ZeroDivisionError")
             THEN /\ last.out = Raise("ZeroDivisionError")
                  /\ IsA("InverseScalingLR") /\ last.t = -1
                  /\ IsNegative(sched.dict.power)
             ELSE IF IsZero(Denominator(fmt, sched, last.t))
             THEN last.out = Raise("ZeroDivisionError")
             ELSE Returned(last) \/ last.out = Raise("OverflowError")

C10_Witness ==
    /\ Called("OptimalLR") /\ last.t >= 0
    /\ IsNegative(sched.dict.alpha) /\ IsNegative(sched.dict.t0)
    /\ Returned(last) /\ IsNegative(last.out)

\* the attributes the constructor call is to set, and nothing else
Configured ==
    CASE made.cls = "ConstantLR" ->
           [learning_rate |-> made.args.learning_rate]
      [] made.cls = "InverseScalingLR" ->
           [learning_rate |-> made.args.learning_rate,
            power |-> ArgValue(made.args.power, DefaultPower(fmt))]
      [] made.cls = "OptimalLR" ->
           [t0 |-> ArgValue(made.args.t0, PyInt(DefaultT0)),
            alpha |-> ArgValue(made.args.alpha, DefaultAlpha(fmt))]

\* C6: after any sequence of calls of get the object holds its parameters
\* with their construction-time values and no other attribute (the step is
\* not stored), and a call at a step returns or raises what the call kept
\* from that step did, however many calls came between
C6_CallsLeaveNoTrace ==
    sched.k = "object" =>
        /\ sched.dict = Configured
        /\ (memo.called /\ last.called /\ memo.t = last.t) => last.out = memo.out

C6_Witness ==
    /\ IsA("InverseScalingLR") /\ sched.dict = Configured
    /\ memo.called /\ last.called /\ memo.age >= MaxAge
    /\ memo.t = last.t /\ last.t > 0
    /\ Returned(last) /\ last.out = memo.out
    /\ last.out /= sched.dict.learning_rate

\* C7: a caller that shares the object with other callers, all inside get at
\* steps of their own, gets what a call at its step on the object as
\* constructed gives, and no call changes the object the others read
C7_SharedCallersAgree ==
    sched.k = "object" =>
        /\ sched.dict = Configured
        /\ \A th \in Threads :
             thr[th].pc = "done" =>
                 thr[th].out =
                   Get(fmt, [k |-> "object", cls |-> made.cls, dict |-> Configured],
                       thr[th].t)

C7_Witness ==
    /\ IsA("OptimalLR")
    /\ \E th \in Threads, other \in Threads :
         /\ thr[th].pc = "done" /\ IsNum(thr[th].out)
         /\ thr[other].pc = "running" /\ Len(thr[other].regs) = 1
         /\ thr[other].t /= thr[th].t

\* C8: an omitted parameter takes its default: InverseScalingLR(r) returns
\* at every step what InverseScalingLR(r, 0.5) returns, OptimalLR with t0 or
\* alpha omitted what OptimalLR with t0 = 1000 or alpha = 1e-4 in its place
\* returns, and OptimalLR().get(0) is 10.0
C8_OmittedTakesDefault ==
    /\ (Called("InverseScalingLR") /\ made.args.power = Omitted)
          => last.out = Get(fmt, InverseScalingLR(fmt, made.args.learning_rate,
                                                  Lit(fmt, 5, 10)),
                            last.t)
    /\ Called("OptimalLR")
          => last.out = Get(fmt, OptimalLR(fmt, ArgValue(made.args.t0, PyInt(1000)),
                                           ArgValue(made.args.alpha,
                                                    Lit(fmt, 1, 10000))),
                            last.t)
    /\ (Called("OptimalLR") /\ made.args.t0 = Omitted /\ made.args.alpha = Omitted
          /\ last.t = 0)
          => last.out = Lit(fmt, 10, 1)

C8_Witness ==
    /\ Called("OptimalLR") /\ last.t = 0
    /\ made.args.t0 = Omitted /\ made.args.alpha = Omitted
    /\ last.out = Lit(fmt, 10, 1)

====
